---- MODULE Spec2Model ----
(***************************************************************************)
(* Model of the Flask locker backend (src/app.py, src/db.py).              *)
(*                                                                         *)
(* Request handlers run in parallel; every access to the upload directory  *)
(* or to a MongoDB collection is one atomic step, taken together with the  *)
(* handler-local code next to it.                                          *)
(*                                                                         *)
(* Text is modelled as a sequence of tokens: a token is a maximal run of   *)
(* letters or digits ("txt", "virus", "1") or one special character        *)
(* (".", "/", " ", "_", "@").  Values stored in documents or sent in a     *)
(* response are tagged pairs <<tag, value>>.                               *)
(***************************************************************************)
EXTENDS Integers, Sequences, FiniteSets, TLC

(***************************************************************************)
(* Bounds of the model.                                                    *)
(***************************************************************************)
NumProcs == 2        \* request handlers that can be in flight together
MaxRequests == 3     \* requests received in one behaviour
MaxClock == 1        \* values of the wall clock

Procs == 1..NumProcs

(***************************************************************************)
(* Tagged values.                                                          *)
(***************************************************************************)
Null == <<"null", <<>>>>
Str(s) == <<"str", s>>
Oid(n) == <<"oid", n>>
DateTime(t) == <<"datetime", t>>
Arr(s) == <<"array", s>>

Get(doc, k) == IF k \in DOMAIN doc THEN doc[k] ELSE Null

(***************************************************************************)
(* Text helpers.                                                           *)
(***************************************************************************)
Lower(tok) ==
    CASE tok = "TXT" -> "txt"
      [] tok = "PNG" -> "png"
      [] tok = "EXE" -> "exe"
      [] tok = "A" -> "a"
      [] OTHER -> tok

LowerAll(s) == [i \in 1..Len(s) |-> Lower(s[i])]

\* index of the last occurrence of tok in s, 0 when there is none
LastIndexOf(s, tok) ==
    IF \E i \in 1..Len(s) : s[i] = tok
    THEN CHOOSE i \in 1..Len(s) : s[i] = tok /\ \A j \in (i+1)..Len(s) : s[j] # tok
    ELSE 0

RECURSIVE LStrip(_, _)
LStrip(s, toks) ==
    IF s # <<>> /\ Head(s) \in toks THEN LStrip(Tail(s), toks) ELSE s

RECURSIVE RStrip(_, _)
RStrip(s, toks) ==
    IF s # <<>> /\ s[Len(s)] \in toks THEN RStrip(SubSeq(s, 1, Len(s) - 1), toks) ELSE s

\* str.strip(chars)
Strip(s, toks) == RStrip(LStrip(s, toks), toks)

\* "sep".join(s.split()): whitespace runs become one sep, outer ones vanish
RECURSIVE JoinSplit(_, _)
JoinSplit(s, sep) ==
    LET t == LStrip(s, {" "}) IN
    IF t = <<>> THEN <<>>
    ELSE IF Head(t) # " " /\ Len(t) > 1 /\ t[2] = " "
              /\ LStrip(Tail(t), {" "}) # <<>>
         THEN <<Head(t), sep>> \o JoinSplit(Tail(t), sep)
         ELSE <<Head(t)>> \o JoinSplit(Tail(t), sep)

ALLOWED_IMAGE_EXTENSIONS == {"png", "jpg", "jpeg", "gif"}

ALLOWED_FILE_EXTENSIONS ==
    ALLOWED_IMAGE_EXTENSIONS \cup {"pdf", "txt", "doc", "docx", "xls", "xlsx", "ppt", "pptx"}

\* "." in filename and filename.rsplit(".", 1)[1].lower() in exts
HasExtensionIn(filename, exts) ==
    LET d == LastIndexOf(filename, ".") IN
    /\ d # 0
    /\ Len(filename) = d + 1
    /\ Lower(filename[d + 1]) \in exts

allowed_image(filename) == HasExtensionIn(filename, ALLOWED_IMAGE_EXTENSIONS)

allowed_file(filename) == HasExtensionIn(filename, ALLOWED_FILE_EXTENSIONS)

\* werkzeug.utils.secure_filename
secure_filename(filename) ==
    LET noSep == [i \in 1..Len(filename) |-> IF filename[i] = "/" THEN " " ELSE filename[i]]
        joined == JoinSplit(noSep, "_")
        kept == SelectSeq(joined, LAMBDA c : c # "@")
    IN Strip(kept, {".", "_"})

\* os.path.splitext on a name without directory separators
splitext(p) ==
    LET d == LastIndexOf(p, ".") IN
    IF d # 0 /\ \E j \in 1..(d - 1) : p[j] # "."
    THEN <<SubSeq(p, 1, d - 1), SubSeq(p, d, Len(p))>>
    ELSE <<p, <<>>>>

\* the counter appended after the extension
NumberedName_AfterExt(base, counter, ext) == base \o ext \o <<"_", ToString(counter)>>

\* f"{base}_{counter}{ext}"
NumberedName(base, counter, ext) == base \o <<"_", ToString(counter)>> \o ext

\* f"/uploads/{filename}"
PublicPath(filename) == <<"/", "uploads", "/">> \o filename

\* os.path.basename
basename(path) == SubSeq(path, LastIndexOf(path, "/") + 1, Len(path))

(***************************************************************************)
(* Inputs: the requests the handlers receive.                              *)
(***************************************************************************)
MimeType == <<"application", "/", "octet">>

Partial == 0   \* content of a blob whose upload was cut short

FileReq(u, has, fn, t) == [user_id |-> u, hasFile |-> has, filename |-> fn, title |-> t]

\* uploads that share one declared filename
SameNameUploads == { FileReq(<<"1">>, TRUE, <<"a", ".", "txt">>, Null) }

\* uploads of every kind: accepted, not accepted, unsafe, empty, missing
AllUploads ==
    SameNameUploads \cup
    { FileReq(<<"1">>, TRUE, <<"virus", ".", "exe">>, Str(<<"t">>)),
      FileReq(<<"zz">>, TRUE, <<"/", ".">>, Null),
      FileReq(<<"1">>, TRUE, <<>>, Null),
      FileReq(<<"1">>, FALSE, <<>>, Null) }

\* profile photos; a photo may carry the name of a locker upload
Photos ==
    { FileReq(<<"x", "1">>, TRUE, <<"a", ".", "png">>, Null),
      FileReq(<<"zz">>, TRUE, <<"a", ".", "png">>, Null),
      FileReq(<<"x", "1">>, TRUE, <<"a", ".", "txt">>, Null),
      FileReq(<<"x", "1">>, TRUE, <<>>, Null),
      FileReq(<<"x", "1">>, FALSE, <<>>, Null) }

ImageUploads == { FileReq(<<"1">>, TRUE, <<"a", ".", "png">>, Null) }

\* identifiers in delete requests: two that parse and one that does not
ItemIds == { <<"x", "1">>, <<"x", "2">>, <<"zz">> }

NoteReq(u, t, c) == [user_id |-> u, title |-> t, content |-> c]

Notes ==
    { NoteReq(<<"1">>, Str(<<"t">>), Str(<<" ", "hello", " ">>)),
      NoteReq(<<"2">>, Null, Str(<<"hello">>)),
      NoteReq(<<"1">>, Null, Str(<<" ">>)),
      NoteReq(<<"1">>, Null, Str(<<>>)),
      NoteReq(<<"1">>, Str(<<"t">>), Null) }

ListUsers == { <<"1">>, <<"2">>, <<"9">> }

Secret == <<"s", "e", "c", "r", "e", "t">>

RegReq(n, e, pw) == [name |-> n, email |-> e, password |-> pw]

Registrations ==
    { RegReq(Str(<<"n">>), Str(<<"a", "@", "b">>), Str(Secret)),
      RegReq(Str(<<" ", "m">>), Str(<<" ", "A", "@", "b", " ">>), Str(Secret)),
      RegReq(Str(<<"n">>), Str(<<"c", "@", "b">>), Str(Secret)),
      RegReq(Str(<<"n">>), Str(<<"a", "b">>), Str(Secret)),
      RegReq(Null, Str(<<"a", "@", "b">>), Str(Secret)),
      RegReq(Str(<<"n">>), Str(<<"a", "@", "b">>), Str(<<"s", "e", "c">>)) }

\* names the upload directory may hold before the first request
DirNames ==
    { <<"a", ".", "txt">>, <<"a", "_", "1", ".", "txt">>, <<"a", "_", "2", ".", "txt">>,
      <<"a", ".", "png">> }

\* one profile photo
OnePhoto == { FileReq(<<"x", "1">>, TRUE, <<"a", ".", "png">>, Null) }

Earlier == 0   \* content of a file that was there before the first request

(***************************************************************************)
(* State.                                                                  *)
(***************************************************************************)
VARIABLES
    blobs,       \* UPLOAD_FOLDER: file name -> bytes, for the files present
    locker,      \* locker_collection: _id -> document
    users,       \* users_collection: _id -> document
    emailIndex,  \* whether the database has a unique index on users.email
    nextOid,     \* next ObjectId the driver generates
    clock,       \* datetime.utcnow()
    started,     \* requests received so far
    pc,          \* per handler: position in the code
    args,        \* per handler: the request
    loc,         \* per handler: local variables
    resp         \* per handler: response of its last request

vars == <<blobs, locker, users, emailIndex, nextOid, clock, started, pc, args, loc, resp>>

NoArgs == [op |-> "none"]

\* filename, base, ext, counter: locals of the upload handlers;
\* saved: file.save has returned; inserted: res.inserted_id (0: none);
\* obj: the document delete_locker_item found; removed: os.remove has returned
NoLoc == [filename |-> <<>>, base |-> <<>>, ext |-> <<>>, counter |-> 0,
          saved |-> FALSE, inserted |-> 0, obj |-> Null, removed |-> FALSE]

NoResp == [status |-> 0, body |-> [none |-> TRUE]]

InitStores ==
    /\ blobs = <<>>
    /\ locker = <<>>
    /\ users = <<>>
    /\ nextOid = 1
    /\ clock = 0
    /\ started = 0
    /\ pc = [p \in Procs |-> "idle"]
    /\ args = [p \in Procs |-> NoArgs]
    /\ loc = [p \in Procs |-> NoLoc]
    /\ resp = [p \in Procs |-> NoResp]

\* db.py creates no index: a fresh database has none on users.email
Init == InitStores /\ emailIndex = FALSE

\* an upload directory that holds files of earlier runs
InitResolve ==
    /\ \E present \in SUBSET DirNames : blobs = [n \in present |-> Earlier]
    /\ locker = <<>>
    /\ users = <<>>
    /\ emailIndex = FALSE
    /\ nextOid = 1
    /\ clock = 0
    /\ started = 0
    /\ pc = [p \in Procs |-> "idle"]
    /\ args = [p \in Procs |-> NoArgs]
    /\ loc = [p \in Procs |-> NoLoc]
    /\ resp = [p \in Procs |-> NoResp]

\* a database that was given the unique index by hand, or was not
InitAccounts == InitStores /\ emailIndex \in BOOLEAN

(***************************************************************************)
(* The upload directory.                                                   *)
(***************************************************************************)
\* os.path.exists(os.path.join(UPLOAD_FOLDER, name)); the empty name is the
\* directory itself
Exists(dir, name) == name = <<>> \/ name \in DOMAIN dir

\* file.save(filepath): create or truncate, then write
WriteFile(dir, name, bytes) ==
    [n \in DOMAIN dir \cup {name} |-> IF n = name THEN bytes ELSE dir[n]]

\* the whole directory emptied, as shutil.rmtree would
RemoveFile_All(dir, name) == <<>>

\* os.remove(path)
RemoveFile(dir, name) == [n \in DOMAIN dir \ {name} |-> dir[n]]

(***************************************************************************)
(* MongoDB collections.                                                    *)
(***************************************************************************)
MaxOid == MaxRequests + 2

\* str(ObjectId)
OidStr(n) == Str(<<"x", ToString(n)>>)

\* ObjectId(s): the strings that parse, and what they parse to
ValidOidStr(s) == \E n \in 1..MaxOid : s = <<"x", ToString(n)>>

ParseOid(s) == CHOOSE n \in 1..MaxOid : s = <<"x", ToString(n)>>

\* the driver adds _id to the document it inserts
WithId(doc, n) ==
    [k \in DOMAIN doc \cup {"_id"} |-> IF k = "_id" THEN Oid(n) ELSE doc[k]]

\* collection.insert_one(doc)
InsertOne(coll, doc, n) ==
    [i \in DOMAIN coll \cup {n} |-> IF i = n THEN WithId(doc, n) ELSE coll[i]]

\* collection.find_one({"_id": n})
FindOne(coll, n) == IF n \in DOMAIN coll THEN coll[n] ELSE Null

\* a filter that matches no document, such as the identifier left a string
DeleteOne_NoMatch(coll, n) == coll

\* collection.delete_one({"_id": n})
DeleteOne(coll, n) == [i \in DOMAIN coll \ {n} |-> coll[i]]

\* doc[k] = v
WithField(doc, k, v) ==
    [f \in DOMAIN doc \cup {k} |-> IF f = k THEN v ELSE doc[f]]

\* a Python value that is falsy
Falsy(v) == v = Null \/ v = Str(<<>>)

\* a locker document of type "file"
IsFileItem(doc) == Get(doc, "type") = Str(<<"file">>)

(***************************************************************************)
(* jsonify.                                                                *)
(***************************************************************************)
\* Flask's JSON provider: a datetime becomes an HTTP date, an ObjectId is a
\* TypeError
JsonOk(v) == v[1] # "oid"

JsonValue(v) == IF v[1] = "datetime" THEN Str(<<"GMT", ToString(v[2])>>) ELSE v

Jsonable(doc) == \A k \in DOMAIN doc : JsonOk(doc[k])

Jsonify(doc) == [k \in DOMAIN doc |-> JsonValue(doc[k])]

\* datetime.isoformat()
isoformat(v) == Str(<<ToString(v[2]), "T">>)

(***************************************************************************)
(* Requests and responses.                                                 *)
(***************************************************************************)
Respond(p, status, body) ==
    /\ pc' = [pc EXCEPT ![p] = "idle"]
    /\ resp' = [resp EXCEPT ![p] = [status |-> status, body |-> body]]

Failure(msg) == [success |-> FALSE, error |-> msg]

Goto(p, label) ==
    /\ pc' = [pc EXCEPT ![p] = label]
    /\ resp' = [resp EXCEPT ![p] = NoResp]

\* an idle handler takes a request, while the behaviour's budget lasts
Receive(p, request, budget) ==
    /\ pc[p] = "idle"
    /\ started < budget
    /\ started' = started + 1
    /\ args' = [args EXCEPT ![p] = request]

\* bytes the handler's caller uploads: every handler has bytes of its own
Payload(p) == p

(***************************************************************************)
(* Name resolution shared by upload_photo and add_locker_item.             *)
(***************************************************************************)
\* filename = secure_filename(file.filename); base, ext = splitext; counter = 1
StartResolve(p, declared) ==
    LET filename == secure_filename(declared)
        be == splitext(filename)
    IN loc' = [loc EXCEPT ![p] = [NoLoc EXCEPT !.filename = filename,
                                     !.base = be[1], !.ext = be[2], !.counter = 1]]

\* one evaluation of "while os.path.exists(filepath)" and of the loop body
ProbeName(p, savePc) ==
    /\ IF Exists(blobs, loc[p].filename)
       THEN /\ loc' = [loc EXCEPT ![p].filename =
                          NumberedName(loc[p].base, loc[p].counter, loc[p].ext),
                                  ![p].counter = loc[p].counter + 1]
            /\ UNCHANGED pc
       ELSE /\ pc' = [pc EXCEPT ![p] = savePc]
            /\ UNCHANGED loc
    /\ UNCHANGED <<blobs, locker, users, emailIndex, nextOid, clock, started, args, resp>>

\* file.save(filepath)
SaveFile(p, nextPc) ==
    /\ \/ /\ blobs' = WriteFile(blobs, loc[p].filename, args[p].payload)
          /\ loc' = [loc EXCEPT ![p].saved = TRUE]
          /\ pc' = [pc EXCEPT ![p] = nextPc]
          /\ UNCHANGED resp
       \/ \* the write fails: exception, caught by the handler's except
          /\ UNCHANGED <<blobs, loc>>
          /\ Respond(p, 500, Failure("Internal error"))
    /\ UNCHANGED <<locker, users, emailIndex, nextOid, clock, started, args>>

(***************************************************************************)
(* add_locker_item, multipart branch (CreateFile).                         *)
(***************************************************************************)
CF_Receive(p, requests, budget) ==
    \E r \in requests :
        /\ Receive(p, [op |-> "CreateFile", user_id |-> r.user_id, hasFile |-> r.hasFile,
                       filename |-> r.filename, title |-> r.title, payload |-> Payload(p)], budget)
        /\ IF ~r.hasFile
           THEN Respond(p, 400, Failure("No file uploaded")) /\ loc' = [loc EXCEPT ![p] = NoLoc]
           ELSE IF r.filename = <<>>
           THEN Respond(p, 400, Failure("Empty filename")) /\ loc' = [loc EXCEPT ![p] = NoLoc]
           ELSE StartResolve(p, r.filename) /\ Goto(p, "cf_probe")
        /\ UNCHANGED <<blobs, locker, users, emailIndex, nextOid, clock>>

\* the record is built and inserted with no file.save before it
AfterResolve_NoSave == "cf_insert"

\* the statement the handler runs once the name is resolved
AfterResolve == "cf_save"

CF_Probe(p) == pc[p] = "cf_probe" /\ ProbeName(p, AfterResolve)

CF_Save(p) == pc[p] = "cf_save" /\ SaveFile(p, "cf_insert")

\* the caller aborts during the upload: the blob is left cut short
CF_SaveAbort(p) ==
    /\ pc[p] = "cf_save"
    /\ blobs' = WriteFile(blobs, loc[p].filename, Partial)
    /\ Respond(p, 0, [crashed_at |-> pc[p]])
    /\ UNCHANGED <<locker, users, emailIndex, nextOid, clock, started, args, loc>>

\* a file item that also carries the title as its content
FileItem_WithContent(p, t) ==
    [user_id |-> Str(args[p].user_id),
     type |-> Str(<<"file">>),
     title |-> IF ~Falsy(args[p].title) THEN args[p].title ELSE Str(loc[p].filename),
     content |-> Str(loc[p].filename),
     file_path |-> Str(PublicPath(loc[p].filename)),
     mime |-> Str(MimeType),
     tags |-> Arr(<<>>),
     created_at |-> DateTime(t)]

\* the dictionary of lines 256-264
FileItem(p, t) ==
    [user_id |-> Str(args[p].user_id),
     type |-> Str(<<"file">>),
     title |-> IF ~Falsy(args[p].title) THEN args[p].title ELSE Str(loc[p].filename),
     file_path |-> Str(PublicPath(loc[p].filename)),
     mime |-> Str(MimeType),
     tags |-> Arr(<<>>),
     created_at |-> DateTime(t)]

\* res = locker_collection.insert_one(item); item["id"] = str(res.inserted_id);
\* return jsonify({"success": True, "item": item}), 201
InsertAndRespond(p, item) ==
    \/ LET out == WithField(WithId(item, nextOid), "id", OidStr(nextOid))
       IN /\ locker' = InsertOne(locker, item, nextOid)
          /\ nextOid' = nextOid + 1
          /\ loc' = [loc EXCEPT ![p].inserted = nextOid]
          /\ IF Jsonable(out)
             THEN Respond(p, 201, [success |-> TRUE, item |-> Jsonify(out)])
             ELSE Respond(p, 500, Failure("Internal error"))
    \/ \* the insert fails: exception, caught by the handler's except
       /\ UNCHANGED <<locker, nextOid, loc>>
       /\ Respond(p, 500, Failure("Internal error"))

CF_Insert(p) ==
    /\ pc[p] = "cf_insert"
    /\ InsertAndRespond(p, FileItem(p, clock))
    /\ UNCHANGED <<blobs, users, emailIndex, clock, started, args>>

(***************************************************************************)
(* add_locker_item, JSON branch (CreateNote).                              *)
(***************************************************************************)
NoteItem(r, content, t) ==
    [user_id |-> Str(r.user_id),
     type |-> Str(<<"note">>),
     title |-> IF ~Falsy(r.title) THEN r.title ELSE Str(<<>>),
     content |-> Str(content),
     tags |-> Arr(<<>>),
     created_at |-> DateTime(t)]

\* the content as it was sent, with no strip()
TrimmedContent_Raw(c) == IF Falsy(c) THEN <<>> ELSE c[2]

\* (data.get("content") or "").strip()
TrimmedContent(c) == IF Falsy(c) THEN <<>> ELSE Strip(c[2], {" "})

CreateNote(p, requests, budget) ==
    \E r \in requests :
        /\ Receive(p, [op |-> "CreateNote", user_id |-> r.user_id, title |-> r.title,
                       content |-> r.content], budget)
        /\ LET content == TrimmedContent(r.content) IN
           IF content = <<>>
           THEN /\ Respond(p, 400, Failure("Content required"))
                /\ loc' = [loc EXCEPT ![p] = NoLoc]
                /\ UNCHANGED <<locker, nextOid>>
           ELSE /\ TRUE
                /\ \/ LET item == NoteItem(r, content, clock)
                          out == WithField(WithId(item, nextOid), "id", OidStr(nextOid))
                      IN /\ locker' = InsertOne(locker, item, nextOid)
                         /\ nextOid' = nextOid + 1
                         /\ loc' = [loc EXCEPT ![p] = [NoLoc EXCEPT !.inserted = nextOid]]
                         /\ IF Jsonable(out)
                            THEN Respond(p, 201, [success |-> TRUE, item |-> Jsonify(out)])
                            ELSE Respond(p, 500, Failure("Internal error"))
                   \/ /\ UNCHANGED <<locker, nextOid>>
                      /\ loc' = [loc EXCEPT ![p] = NoLoc]
                      /\ Respond(p, 500, Failure("Internal error"))
        /\ UNCHANGED <<blobs, users, emailIndex, clock>>

(***************************************************************************)
(* delete_locker_item (DeleteItem).                                        *)
(***************************************************************************)
Del_Receive(p, ids, budget) ==
    \E id \in ids :
        /\ Receive(p, [op |-> "DeleteItem", item_id |-> id], budget)
        /\ loc' = [loc EXCEPT ![p] = NoLoc]
        /\ Goto(p, "del_find")
        /\ UNCHANGED <<blobs, locker, users, emailIndex, nextOid, clock>>

\* if not obj
NotFound(obj) == obj = Null

\* obj = locker_collection.find_one({"_id": ObjectId(item_id)})
Del_Find(p) ==
    /\ pc[p] = "del_find"
    /\ IF ~ValidOidStr(args[p].item_id)
       THEN Respond(p, 400, Failure("invalid id")) /\ UNCHANGED loc
       ELSE LET obj == FindOne(locker, ParseOid(args[p].item_id)) IN
            IF NotFound(obj)
            THEN Respond(p, 404, Failure("Not found")) /\ UNCHANGED loc
            ELSE IF Get(obj, "type") = Str(<<"file">>) /\ ~Falsy(Get(obj, "file_path"))
            THEN /\ loc' = [loc EXCEPT ![p].obj = obj,
                                       ![p].filename = basename(Get(obj, "file_path")[2])]
                 /\ pc' = [pc EXCEPT ![p] = "del_exists"]
                 /\ UNCHANGED resp
            ELSE /\ loc' = [loc EXCEPT ![p].obj = obj]
                 /\ pc' = [pc EXCEPT ![p] = "del_delete"]
                 /\ UNCHANGED resp
    /\ UNCHANGED <<blobs, locker, users, emailIndex, nextOid, clock, started, args>>

\* if os.path.exists(path)
Del_Exists(p) ==
    /\ pc[p] = "del_exists"
    /\ pc' = [pc EXCEPT ![p] = IF Exists(blobs, loc[p].filename)
                               THEN "del_remove" ELSE "del_delete"]
    /\ UNCHANGED <<blobs, locker, users, emailIndex, nextOid, clock, started, args, loc, resp>>

\* the OSError reaches the handler's outer except
OnRemoveError_Propagates(p) == Respond(p, 400, Failure("invalid id"))

\* except Exception as e: logger.warning(...)
OnRemoveError(p) == pc' = [pc EXCEPT ![p] = "del_delete"] /\ UNCHANGED resp

\* os.remove(path)
Del_Remove(p) ==
    /\ pc[p] = "del_remove"
    /\ \/ /\ loc[p].filename \in DOMAIN blobs
          /\ blobs' = RemoveFile(blobs, loc[p].filename)
          /\ loc' = [loc EXCEPT ![p].removed = TRUE]
          /\ pc' = [pc EXCEPT ![p] = "del_delete"]
          /\ UNCHANGED resp
       \/ \* OSError: the file is gone by now, or it cannot be removed
          /\ UNCHANGED <<blobs, loc>>
          /\ OnRemoveError(p)
    /\ UNCHANGED <<locker, users, emailIndex, nextOid, clock, started, args>>

\* locker_collection.delete_one({"_id": ObjectId(item_id)})
Del_Delete(p) ==
    /\ pc[p] = "del_delete"
    /\ locker' = DeleteOne(locker, ParseOid(args[p].item_id))
    /\ Respond(p, 200, [success |-> TRUE])
    /\ UNCHANGED <<blobs, users, emailIndex, nextOid, clock, started, args, loc>>

(***************************************************************************)
(* get_locker_items (ListItems).                                           *)
(***************************************************************************)
\* the dictionary built for each row
Serialized(r) ==
    [id |-> OidStr(Get(r, "_id")[2]),
     user_id |-> Get(r, "user_id"),
     type |-> Get(r, "type"),
     title |-> Get(r, "title"),
     content |-> Get(r, "content"),
     file_path |-> Get(r, "file_path"),
     mime |-> Get(r, "mime"),
     tags |-> IF "tags" \in DOMAIN r THEN r["tags"] ELSE Arr(<<>>),
     created_at |-> IF Falsy(Get(r, "created_at")) THEN Null
                    ELSE isoformat(Get(r, "created_at"))]

\* the rows in the order of their insertion, oldest first
SortedRows_Unsorted(coll, u) ==
    LET ids == {i \in DOMAIN coll : Get(coll[i], "user_id") = Str(u)}
        k == Cardinality(ids)
    IN {s \in [1..k -> ids] : \A i, j \in 1..k : i < j => s[i] < s[j]}

\* the orders find({"user_id": u}).sort("created_at", -1) can return: the
\* order of rows with equal keys is the server's choice
SortedRows(coll, u) ==
    LET ids == {i \in DOMAIN coll : Get(coll[i], "user_id") = Str(u)}
        k == Cardinality(ids)
    IN {s \in [1..k -> ids] :
          /\ \A i, j \in 1..k : i # j => s[i] # s[j]
          /\ \A i, j \in 1..k :
                i < j => coll[s[i]]["created_at"][2] >= coll[s[j]]["created_at"][2]}

ListItems(p, userIds, budget) ==
    \E u \in userIds :
        /\ Receive(p, [op |-> "ListItems", user_id |-> u], budget)
        /\ loc' = [loc EXCEPT ![p] = NoLoc]
        /\ \E rows \in SortedRows(locker, u) :
              Respond(p, 200, [success |-> TRUE,
                               items |-> [i \in DOMAIN rows |-> Serialized(locker[rows[i]])]])
        /\ UNCHANGED <<blobs, locker, users, emailIndex, nextOid, clock>>

(***************************************************************************)
(* serve_uploaded_file (FetchBlob).                                        *)
(***************************************************************************)
\* the paths a caller can know: those of the stored file records, which
\* ListItems shows, and those a CreateFile returned
KnownPaths ==
    {Get(locker[n], "file_path")[2] : n \in {i \in DOMAIN locker : IsFileItem(locker[i])}}
      \cup {resp[q].body.item["file_path"][2] :
               q \in {r \in Procs : /\ resp[r].status = 201
                                    /\ args[r].op = "CreateFile"}}

\* a path under /uploads/ that names no file
MissingPath == PublicPath(<<"none", ".", "txt">>)

\* GET /uploads/<filename>: send_from_directory(UPLOAD_FOLDER, filename)
FetchBlob(p, budget) ==
    \E path \in KnownPaths \cup {MissingPath} :
        /\ Receive(p, [op |-> "FetchBlob", path |-> path], budget)
        /\ loc' = [loc EXCEPT ![p] = NoLoc]
        /\ LET filename == basename(path) IN
           IF filename \in DOMAIN blobs
           THEN Respond(p, 200, [bytes |-> blobs[filename]])
           ELSE Respond(p, 404, Failure("Not Found"))
        /\ UNCHANGED <<blobs, locker, users, emailIndex, nextOid, clock>>

(***************************************************************************)
(* upload_photo.                                                           *)
(***************************************************************************)
UP_Receive(p, requests, budget) ==
    \E r \in requests :
        /\ Receive(p, [op |-> "UploadPhoto", user_id |-> r.user_id, hasFile |-> r.hasFile,
                       filename |-> r.filename, payload |-> Payload(p)], budget)
        /\ IF ~r.hasFile
           THEN Respond(p, 400, Failure("No file uploaded")) /\ loc' = [loc EXCEPT ![p] = NoLoc]
           ELSE IF r.filename = <<>>
           THEN Respond(p, 400, Failure("No file selected")) /\ loc' = [loc EXCEPT ![p] = NoLoc]
           ELSE IF allowed_image(r.filename)
           THEN StartResolve(p, r.filename) /\ Goto(p, "up_probe")
           ELSE Respond(p, 400, Failure("Invalid file type")) /\ loc' = [loc EXCEPT ![p] = NoLoc]
        /\ UNCHANGED <<blobs, locker, users, emailIndex, nextOid, clock>>

UP_Probe(p) == pc[p] = "up_probe" /\ ProbeName(p, "up_save")

UP_Save(p) == pc[p] = "up_save" /\ SaveFile(p, "up_update")

\* users_collection.update_one({"_id": ObjectId(user_id)}, {"$set": {"photo": ...}})
UP_Update(p) ==
    /\ pc[p] = "up_update"
    /\ IF ~ValidOidStr(args[p].user_id)
       THEN Respond(p, 500, Failure("Internal server error")) /\ UNCHANGED users
       ELSE LET n == ParseOid(args[p].user_id)
                photo == Str(PublicPath(loc[p].filename))
            IN /\ users' = IF n \in DOMAIN users
                           THEN [users EXCEPT ![n] = WithField(users[n], "photo", photo)]
                           ELSE users
               /\ Respond(p, 200, [success |-> TRUE, photo |-> photo])
    /\ UNCHANGED <<blobs, locker, emailIndex, nextOid, clock, started, args, loc>>

(***************************************************************************)
(* register.                                                               *)
(***************************************************************************)
\* (data.get(k) or "").strip()
Stripped(v) == IF Falsy(v) THEN <<>> ELSE Strip(v[2], {" "})

\* generate_password_hash(password, method="pbkdf2:sha256")
PasswordHash(pw) == <<"pbkdf2:sha256", "$">> \o pw

\* the insert raises DuplicateKeyError when a unique index is violated
DuplicateKey(coll, email) ==
    emailIndex /\ \E i \in DOMAIN coll : coll[i]["email"] = Str(email)

Register(p, requests, budget) ==
    \E r \in requests :
        /\ Receive(p, [op |-> "Register", name |-> r.name, email |-> r.email,
                       password |-> r.password], budget)
        /\ loc' = [loc EXCEPT ![p] = NoLoc]
        /\ LET name == Stripped(r.name)
               email == LowerAll(Stripped(r.email))
               password == IF Falsy(r.password) THEN <<>> ELSE r.password[2]
           IN IF name = <<>> \/ email = <<>> \/ password = <<>>
              THEN Respond(p, 400, Failure("Missing name/email/password"))
                   /\ UNCHANGED <<users, nextOid>>
              ELSE IF ~(\E i \in 1..Len(email) : email[i] = "@")
              THEN Respond(p, 400, Failure("Invalid email"))
                   /\ UNCHANGED <<users, nextOid>>
              ELSE IF Len(password) < 6
              THEN Respond(p, 400, Failure("Password must be at least 6 characters"))
                   /\ UNCHANGED <<users, nextOid>>
              ELSE /\ TRUE
                   /\ IF DuplicateKey(users, email)
                      THEN Respond(p, 409, Failure("Email already registered"))
                           /\ UNCHANGED <<users, nextOid>>
                      ELSE /\ users' = InsertOne(users,
                                  [name |-> Str(name), email |-> Str(email),
                                   password |-> Str(PasswordHash(password)),
                                   photo |-> Null, created_at |-> DateTime(clock)], nextOid)
                           /\ nextOid' = nextOid + 1
                           /\ Respond(p, 201, [success |-> TRUE,
                                  user |-> [id |-> OidStr(nextOid), name |-> Str(name),
                                            email |-> Str(email)]])
        /\ UNCHANGED <<blobs, locker, emailIndex, clock>>

\* the account register and upload_photo leave behind: one user whose
\* profile photo is uploads/a.png
PhotoName == <<"a", ".", "png">>

AccountWithPhoto ==
    [_id |-> Oid(1), name |-> Str(<<"n">>), email |-> Str(<<"a", "@", "b">>),
     password |-> Str(PasswordHash(Secret)), photo |-> Str(PublicPath(PhotoName)),
     created_at |-> DateTime(0)]

InitFrame ==
    /\ blobs = [n \in {PhotoName} |-> Earlier]
    /\ locker = <<>>
    /\ users = [i \in {1} |-> AccountWithPhoto]
    /\ emailIndex = FALSE
    /\ nextOid = 2
    /\ clock = 0
    /\ started = 0
    /\ pc = [p \in Procs |-> "idle"]
    /\ args = [p \in Procs |-> NoArgs]
    /\ loc = [p \in Procs |-> NoLoc]
    /\ resp = [p \in Procs |-> NoResp]

(***************************************************************************)
(* Time passes: datetime.utcnow() never runs backwards.                    *)
(***************************************************************************)
Tick ==
    /\ clock < MaxClock
    /\ clock' = clock + 1
    /\ UNCHANGED <<blobs, locker, users, emailIndex, nextOid, started, pc, args, loc, resp>>

(***************************************************************************)
(* A handler that stops between two steps (crash, caller abort).           *)
(***************************************************************************)
Crash(p) ==
    /\ pc[p] # "idle"
    /\ Respond(p, 0, [crashed_at |-> pc[p]])
    /\ UNCHANGED <<blobs, locker, users, emailIndex, nextOid, clock, started, args, loc>>

(***************************************************************************)
(* Specifications.                                                         *)
(***************************************************************************)
CreateFileSteps(p) == CF_Probe(p) \/ CF_Save(p) \/ CF_SaveAbort(p) \/ CF_Insert(p)

DeleteSteps(p) == Del_Find(p) \/ Del_Exists(p) \/ Del_Remove(p) \/ Del_Delete(p)

UploadPhotoSteps(p) == UP_Probe(p) \/ UP_Save(p) \/ UP_Update(p)

\* uploads of every kind, in parallel
NextCreate ==
    \E p \in Procs :
        \/ CF_Receive(p, AllUploads, MaxRequests)
        \/ CreateFileSteps(p)
        \/ Crash(p)

SpecCreate == Init /\ [][NextCreate]_vars

\* uploads under one name and deletions, in parallel
Next ==
    \E p \in Procs :
        \/ CF_Receive(p, SameNameUploads, MaxRequests)
        \/ CreateFileSteps(p)
        \/ Del_Receive(p, ItemIds, MaxRequests)
        \/ DeleteSteps(p)
        \/ Crash(p)

Spec == Init /\ [][Next]_vars

\* no DeleteItem is in progress
NoDeleteRunning == \A q \in Procs : args[q].op = "DeleteItem" => pc[q] = "idle"

\* a DeleteItem that arrives when the one before it has ended
Del_ReceiveAlone(p, ids, budget) == NoDeleteRunning /\ Del_Receive(p, ids, budget)

\* one more request, and deletions that are issued one after the other
NextRecover ==
    \E p \in Procs :
        \/ CF_Receive(p, SameNameUploads, MaxRequests + 1)
        \/ CreateFileSteps(p)
        \/ Del_ReceiveAlone(p, ItemIds, MaxRequests + 1)
        \/ DeleteSteps(p)
        \/ Crash(p)

SpecRecover == Init /\ [][NextRecover]_vars

\* locker uploads and profile photos, in parallel
NextPhoto ==
    \E p \in Procs :
        \/ CF_Receive(p, ImageUploads, MaxRequests)
        \/ CreateFileSteps(p)
        \/ UP_Receive(p, Photos, MaxRequests)
        \/ UploadPhotoSteps(p)
        \/ Register(p, Registrations, MaxRequests)
        \/ Crash(p)

SpecPhoto == Init /\ [][NextPhoto]_vars

\* notes and listings, while time passes
NextNotes ==
    \/ \E p \in Procs :
          \/ CreateNote(p, Notes, MaxRequests)
          \/ ListItems(p, ListUsers, MaxRequests)
    \/ Tick

SpecNotes == Init /\ [][NextNotes]_vars

\* registrations
NextAccounts == \E p \in Procs : Register(p, Registrations, MaxRequests)

SpecAccounts == InitAccounts /\ [][NextAccounts]_vars

\* uploads under one name, and downloads
NextFetch ==
    \E p \in Procs :
        \/ CF_Receive(p, SameNameUploads, MaxRequests)
        \/ CreateFileSteps(p)
        \/ FetchBlob(p, MaxRequests)

SpecFetch == Init /\ [][NextFetch]_vars

\* no request is in progress
AllIdle == \A q \in Procs : pc[q] = "idle"

\* uploads one after the other, into a directory that is not empty
CF_ReceiveAlone(p, requests, budget) == AllIdle /\ CF_Receive(p, requests, budget)

UP_ReceiveAlone(p, requests, budget) == AllIdle /\ UP_Receive(p, requests, budget)

NextResolve ==
    \E p \in Procs :
        \/ CF_ReceiveAlone(p, SameNameUploads, MaxRequests)
        \/ CreateFileSteps(p)
        \/ UP_ReceiveAlone(p, OnePhoto, MaxRequests)
        \/ UploadPhotoSteps(p)

SpecResolve == InitResolve /\ [][NextResolve]_vars

\* files, notes and listings, in parallel
NextLocker ==
    \E p \in Procs :
        \/ CF_Receive(p, SameNameUploads, MaxRequests)
        \/ CreateFileSteps(p)
        \/ CreateNote(p, Notes, MaxRequests)
        \/ ListItems(p, ListUsers, MaxRequests)

SpecLocker == Init /\ [][NextLocker]_vars

\* uploads and deletions next to an account that has a profile photo
NextFrame ==
    \E p \in Procs :
        \/ CF_Receive(p, ImageUploads, MaxRequests)
        \/ CreateFileSteps(p)
        \/ Del_Receive(p, ItemIds, MaxRequests)
        \/ DeleteSteps(p)

SpecFrame == InitFrame /\ [][NextFrame]_vars

(***************************************************************************)
(* Properties.                                                             *)
(***************************************************************************)
\* the handler stopped before it answered
Crashed(r) == "crashed_at" \in DOMAIN r.body

\* the handler answered
Answered(p) == pc[p] = "idle" /\ resp[p].status # 0

\* the blob name a locker record references
BlobNameOf(doc) == basename(Get(doc, "file_path")[2])

IsFileRecord(doc) == Get(doc, "type") = Str(<<"file">>)

\* handler p runs or ran CreateFile and its file.save has returned
Uploaded(p) == args[p].op = "CreateFile" /\ loc[p].saved

\* handler p ran DeleteItem and answered or stopped
DeleteEnded(p) == args[p].op = "DeleteItem" /\ pc[p] = "idle"

\* C1: CreateFile calls that run concurrently with the identical declared
\* filename against an empty Blob Store obtain pairwise distinct resolved
\* names, and every uploaded payload stays stored under the name its own call
\* resolved (no write overwrites another).
C1_NoSilentOverwrite ==
    /\ \A p, q \in Procs :
          (p # q /\ Uploaded(p) /\ Uploaded(q) /\ args[p].filename = args[q].filename)
             => loc[p].filename # loc[q].filename
    /\ \A p \in Procs :
          Uploaded(p) => /\ loc[p].filename \in DOMAIN blobs
                         /\ blobs[loc[p].filename] = args[p].payload

\* C2: in every reachable state every LockerItem record of kind file
\* references a blob name that is present in the Blob Store.
C2_NoDanglingRecord ==
    \A n \in DOMAIN locker :
        IsFileRecord(locker[n]) => BlobNameOf(locker[n]) \in DOMAIN blobs

\* C3: a CreateFile whose declared filename has no accepted extension fails
\* with a client error, writes no blob and inserts no record.
C3_UnsupportedTypeRejected ==
    \A p \in Procs :
        (/\ args[p].op = "CreateFile"
         /\ args[p].hasFile
         /\ args[p].filename # <<>>
         /\ ~allowed_file(args[p].filename))
           => /\ ~loc[p].saved
              /\ loc[p].inserted = 0
              /\ Answered(p) => resp[p].status \in 400..499

\* C4: the accounts collection holds at most one record per normalized email.
C4_UniqueEmail ==
    \A i, j \in DOMAIN users : i # j => users[i]["email"] # users[j]["email"]

\* a DeleteItem of identifier id stopped after it removed the blob and before
\* it deleted the record
StoppedAfterRemove(q, id) ==
    /\ DeleteEnded(q)
    /\ args[q].item_id = id
    /\ Crashed(resp[q])
    /\ loc[q].removed

RecordsReferencing(coll, name) ==
    {n \in DOMAIN coll : IsFileRecord(coll[n]) /\ BlobNameOf(coll[n]) = name}

\* C5: after a DeleteItem stopped between removing the blob and deleting the
\* record, a later DeleteItem of the same identifier succeeds, removes the
\* record, and removes no blob that another LockerItem record references,
\* whatever CreateFile calls ran in between.
C5_RedeleteRecovers ==
    [][\A p \in Procs :
          (/\ args[p].op = "DeleteItem"
           /\ \E q \in Procs \ {p} : StoppedAfterRemove(q, args[p].item_id)
           /\ pc'[p] # pc[p]
           /\ ~Crashed(resp'[p]))
             => /\ pc[p] = "del_remove" /\ blobs' # blobs
                   => RecordsReferencing(locker, loc[p].filename)
                         \subseteq {ParseOid(args[p].item_id)}
                /\ pc[p] = "del_delete"
                   => /\ resp'[p].status = 200
                      /\ ParseOid(args[p].item_id) \notin DOMAIN locker']_vars

\* C6: in every CreateFile the blob write has completed before the record is
\* inserted: no call has its record inserted while its blob is unwritten, and
\* a call that stopped between its steps has inserted no record.
C6_BlobBeforeRecord ==
    \A p \in Procs :
        args[p].op = "CreateFile"
           => /\ loc[p].inserted # 0 => loc[p].saved
              /\ (pc[p] = "idle" /\ Crashed(resp[p])) => loc[p].inserted = 0

C6_Witness ==
    \E p \in Procs :
        /\ Uploaded(p)
        /\ loc[p].inserted \in DOMAIN locker
        /\ BlobNameOf(locker[loc[p].inserted]) = loc[p].filename
        /\ \E q \in Procs :
              /\ args[q].op = "CreateFile"
              /\ Crashed(resp[q])
              /\ resp[q].body.crashed_at = "cf_insert"

\* handler q answered a DeleteItem of identifier id with success
DeletedBy(q, id) ==
    /\ DeleteEnded(q)
    /\ args[q].item_id = id
    /\ resp[q].status = 200

\* C7: a first DeleteItem of an existing item succeeds and removes the record;
\* a DeleteItem of the same identifier issued afterwards answers 404 Not found
\* and changes neither store, also when the item's blob is already gone.
C7_DeleteIdempotent ==
    [][\A p \in Procs :
          (/\ args[p].op = "DeleteItem"
           /\ ValidOidStr(args[p].item_id)
           /\ pc'[p] # pc[p]
           /\ ~Crashed(resp'[p]))
             => LET n == ParseOid(args[p].item_id) IN
                /\ pc[p] = "del_delete"
                   => resp'[p].status = 200 /\ n \notin DOMAIN locker'
                /\ (pc[p] = "del_find" /\ (n \notin DOMAIN locker
                                           \/ \E q \in Procs : DeletedBy(q, args[p].item_id)))
                   => /\ pc'[p] = "idle"
                      /\ resp'[p].status = 404
                      /\ <<blobs, locker, users>>' = <<blobs, locker, users>>]_vars

C7_Witness ==
    \E p, q \in Procs :
        /\ DeletedBy(q, args[q].item_id)
        /\ loc[q].obj # Null
        /\ DeleteEnded(p)
        /\ args[p].item_id = args[q].item_id
        /\ resp[p].status = 404

\* handler p ran DeleteItem on an existing file item and answered without
\* having removed the blob: the blob was missing or could not be removed
BlobNotRemoved(p) ==
    /\ DeleteEnded(p)
    /\ ~Crashed(resp[p])
    /\ loc[p].obj # Null
    /\ IsFileRecord(loc[p].obj)
    /\ ~loc[p].removed

\* C8: DeleteItem on an existing file item whose blob is missing or cannot be
\* removed still deletes the record and answers success; the failed removal
\* is never surfaced as a request failure.
C8_DeleteDespiteBlobFailure ==
    \A p \in Procs :
        BlobNotRemoved(p)
           => /\ resp[p].status = 200
              /\ resp[p].body = [success |-> TRUE]
              /\ ParseOid(args[p].item_id) \notin DOMAIN locker

C8_Witness ==
    \E p, q \in Procs :
        /\ BlobNotRemoved(p)
        /\ StoppedAfterRemove(q, args[p].item_id)
        /\ BlobNameOf(loc[p].obj) \notin DOMAIN blobs
        /\ resp[p].status = 200

\* C9: only CreateFile and DeleteItem create, rename or delete files under
\* the Blob Store root: a step that changes the blobs is a step of a handler
\* running one of the two.
C9_OnlyLockerTouchesBlobs ==
    [][blobs' # blobs
          => \E p \in Procs :
                /\ pc'[p] # pc[p]
                /\ args[p].op \in {"CreateFile", "DeleteItem"}]_vars

\* the fields of a returned item that a listed item must repeat
SameButTimestamp(a, b) ==
    \A k \in {"id", "user_id", "type", "title", "content", "file_path", "mime", "tags"} :
        Get(a, k) = Get(b, k)

\* handler p ran CreateNote with content that is non-empty once trimmed, and
\* the store took the record
NoteStored(p) ==
    /\ args[p].op = "CreateNote"
    /\ pc[p] = "idle"
    /\ TrimmedContent(args[p].content) # <<>>
    /\ loc[p].inserted # 0

\* C10: CreateNote with content that is non-empty after trimming returns a
\* serialized item with type "note", the trimmed content and no file_path, and
\* a ListItems of the same user issued afterwards contains an item with the
\* same id whose fields, created_at aside, equal the returned ones.
C10_NoteRoundTrip ==
    /\ [](\A p \in Procs :
            NoteStored(p)
               => /\ resp[p].status = 201
                  /\ "item" \in DOMAIN resp[p].body
                  /\ Get(resp[p].body.item, "type") = Str(<<"note">>)
                  /\ Get(resp[p].body.item, "content") = Str(TrimmedContent(args[p].content))
                  /\ Get(resp[p].body.item, "file_path") = Null)
    /\ [][\A p, q \in Procs :
            (/\ NoteStored(p)
             /\ resp[p].status = 201
             /\ pc[q] = "idle"
             /\ args'[q].op = "ListItems"
             /\ started' # started
             /\ resp'[q] # resp[q] \/ args'[q] # args[q]
             /\ args'[q].user_id = args[p].user_id)
               => \E i \in DOMAIN resp'[q].body.items :
                     SameButTimestamp(resp'[q].body.items[i], resp[p].body.item)]_vars

\* handler p ran CreateFile to its end: the blob was written and the store
\* took the record
FileStored(p) ==
    /\ args[p].op = "CreateFile"
    /\ pc[p] = "idle"
    /\ loc[p].saved
    /\ loc[p].inserted # 0

\* C11: a CreateFile that stored its file returns the item with its
\* file_path, and a FetchBlob of that path issued next returns exactly the
\* bytes that were uploaded.
C11_FileRoundTrip ==
    /\ [](\A p \in Procs :
            FileStored(p)
               => /\ resp[p].status = 201
                  /\ "item" \in DOMAIN resp[p].body
                  /\ Get(resp[p].body.item, "file_path")
                        = Str(PublicPath(loc[p].filename)))
    /\ [][\A p, q \in Procs :
            (/\ FileStored(p)
             /\ resp[p].status = 201
             /\ pc[q] = "idle"
             /\ args'[q].op = "FetchBlob"
             /\ started' # started
             /\ resp'[q] # resp[q] \/ args'[q] # args[q]
             /\ args'[q].path = resp[p].body.item["file_path"][2])
               => /\ resp'[q].status = 200
                  /\ resp'[q].body = [bytes |-> args[p].payload]]_vars

\* the identifiers of the listed items, in the order of the list
ListedIds(items) == [i \in DOMAIN items |-> ParseOid(items[i].id[2])]

\* C12: ListItems(userId) answers 200 with exactly the records whose owner is
\* userId, each once and none of another user, most recent created_at first;
\* for a user without records the list is empty.
C12_ListExactSorted ==
    [][\A q \in Procs :
          (/\ pc[q] = "idle"
           /\ args'[q].op = "ListItems"
           /\ started' # started
           /\ resp'[q] # resp[q] \/ args'[q] # args[q])
             => LET u == args'[q].user_id
                    owned == {n \in DOMAIN locker : locker[n]["user_id"] = Str(u)}
                    ids == ListedIds(resp'[q].body.items)
                IN /\ resp'[q].status = 200
                   /\ Len(ids) = Cardinality(owned)
                   /\ {ids[i] : i \in DOMAIN ids} = owned
                   /\ \A i, j \in DOMAIN ids :
                         i < j => locker[ids[i]]["created_at"][2]
                                    >= locker[ids[j]]["created_at"][2]]_vars

\* a list of two items of different age was returned, the newer one first
C12_Witness ==
    \E q \in Procs :
        /\ args[q].op = "ListItems"
        /\ resp[q].status = 200
        /\ Len(resp[q].body.items) = 2
        /\ resp[q].body.items[1].created_at # resp[q].body.items[2].created_at
        /\ ListedIds(resp[q].body.items)[1] > ListedIds(resp[q].body.items)[2]

\* content that is missing, empty or made of whitespace only
Blank(c) == c = Null \/ \A i \in 1..Len(c[2]) : c[2][i] = " "

\* t is s without its leading and its trailing whitespace
IsTrimOf(t, s) ==
    \E i, j \in 1..Len(s) :
        /\ t = SubSeq(s, i, j)
        /\ s[i] # " " /\ s[j] # " "
        /\ \A k \in 1..Len(s) : (k < i \/ k > j) => s[k] = " "

\* C13: CreateNote with missing, empty or whitespace-only content answers 400
\* and changes neither store; with any other content it touches no blob and,
\* unless the store refuses the insert, adds exactly one record, of type
\* note, of the caller, holding the trimmed content.
C13_NoteValidation ==
    [][\A p \in Procs :
          (/\ pc[p] = "idle"
           /\ args'[p].op = "CreateNote"
           /\ started' # started
           /\ resp'[p] # resp[p] \/ args'[p] # args[p] \/ loc'[p] # loc[p])
             => LET c == args'[p].content IN
                /\ blobs' = blobs
                /\ IF Blank(c)
                   THEN resp'[p].status = 400 /\ locker' = locker
                   ELSE /\ resp'[p].status # 400
                        /\ \/ /\ locker' = locker
                              /\ resp'[p].status = 500
                              /\ loc'[p].inserted = 0
                           \/ \E n \in DOMAIN locker' \ DOMAIN locker :
                                 /\ DOMAIN locker' = DOMAIN locker \cup {n}
                                 /\ \A i \in DOMAIN locker : locker'[i] = locker[i]
                                 /\ locker'[n]["type"] = Str(<<"note">>)
                                 /\ locker'[n]["user_id"] = Str(args'[p].user_id)
                                 /\ IsTrimOf(locker'[n]["content"][2], c[2])]_vars

\* one note was stored without the spaces around its content, and one
\* request with blank content was refused
C13_Witness ==
    \E p, q \in Procs :
        /\ NoteStored(p)
        /\ args[p].content = Str(<<" ", "hello", " ">>)
        /\ loc[p].inserted \in DOMAIN locker
        /\ locker[loc[p].inserted]["content"] = Str(<<"hello">>)
        /\ args[q].op = "CreateNote"
        /\ Blank(args[q].content)
        /\ resp[q].status = 400

\* handler p has left the loop that resolves the name and has not saved yet
Resolved(p) == pc[p] \in {"cf_save", "up_save"}

\* C14: for a sanitized name base+ext and the names present in the upload
\* directory, the resolved name is the requested name when it is absent, and
\* otherwise base_k+ext for the smallest k >= 1 that is absent; it is not
\* among the names present and ends with the extension. The result is this
\* function of the two inputs, so equal inputs give equal results.
C14_NameResolution ==
    \A p \in Procs :
        Resolved(p)
           => LET requested == secure_filename(args[p].filename)
                  base == loc[p].base
                  ext == loc[p].ext
                  name == loc[p].filename
                  present == DOMAIN blobs
              IN /\ base \o ext = requested
                 /\ IF requested \notin present
                    THEN name = requested
                    ELSE \E k \in 1..(Cardinality(present) + 1) :
                            /\ name = base \o <<"_", ToString(k)>> \o ext
                            /\ \A j \in 1..(k - 1) :
                                  base \o <<"_", ToString(j)>> \o ext \in present
                 /\ name \notin present
                 /\ Len(name) >= Len(ext)
                 /\ SubSeq(name, Len(name) - Len(ext) + 1, Len(name)) = ext

\* the first free number is taken although a higher one is in use
C14_Witness ==
    \E p \in Procs :
        /\ Resolved(p)
        /\ pc[p] = "cf_save"
        /\ loc[p].filename = <<"a", "_", "1", ".", "txt">>
        /\ <<"a", "_", "2", ".", "txt">> \in DOMAIN blobs
        /\ <<"a", ".", "png">> \in DOMAIN blobs

\* C15: a CreateFile whose declared filename is not empty and whose sanitized
\* base name is empty is refused with a client error; it writes no blob and
\* inserts no record.
C15_EmptyBaseRejected ==
    \A p \in Procs :
        (/\ args[p].op = "CreateFile"
         /\ args[p].hasFile
         /\ args[p].filename # <<>>
         /\ splitext(secure_filename(args[p].filename))[1] = <<>>)
           => /\ ~loc[p].saved
              /\ loc[p].inserted = 0
              /\ Answered(p) => resp[p].status \in 400..499

\* C16: every record of the locker collection is a note with non-empty
\* content and neither file_path nor mime, or a file with a file_path and a
\* mime and no content; none has both content and file_path, none has
\* neither.
C16_ContentXorBlob ==
    \A n \in DOMAIN locker :
        LET doc == locker[n] IN
        \/ /\ doc["type"] = Str(<<"note">>)
           /\ ~Falsy(Get(doc, "content"))
           /\ {"file_path", "mime"} \cap DOMAIN doc = {}
        \/ /\ doc["type"] = Str(<<"file">>)
           /\ ~Falsy(Get(doc, "file_path"))
           /\ "mime" \in DOMAIN doc
           /\ "content" \notin DOMAIN doc

\* the collection holds a note and a file
C16_Witness ==
    \E n, m \in DOMAIN locker :
        /\ locker[n]["type"] = Str(<<"note">>)
        /\ locker[m]["type"] = Str(<<"file">>)

\* the item type of the boundary: the fixed field set, id a string, tags an
\* array, created_at an ISO-8601 string or null, content and file_path null
\* where the kind has none, and no ObjectId or datetime value
ItemShape(item) ==
    /\ DOMAIN item = {"id", "user_id", "type", "title", "content", "file_path",
                      "mime", "tags", "created_at"}
    /\ item["id"][1] = "str"
    /\ item["tags"][1] = "array"
    /\ \/ item["created_at"] = Null
       \/ \E t \in 0..MaxClock : item["created_at"] = isoformat(DateTime(t))
    /\ item["type"] = Str(<<"note">>) => item["file_path"] = Null
    /\ item["type"] = Str(<<"file">>) => item["content"] = Null
    /\ \A k \in DOMAIN item : item[k][1] \notin {"oid", "datetime"}

\* every element of every list that was returned has the item type
ListedShape ==
    \A q \in Procs :
        (args[q].op = "ListItems" /\ resp[q].status = 200)
           => \A i \in DOMAIN resp[q].body.items : ItemShape(resp[q].body.items[i])

\* C17: every item that crosses the boundary has the item type: the item a
\* CreateNote or a CreateFile returns for the record it stored, and every
\* element of a list.
C17_BoundaryShape ==
    /\ \A p \in Procs :
          (NoteStored(p) \/ FileStored(p))
             => /\ resp[p].status = 201
                /\ "item" \in DOMAIN resp[p].body
                /\ ItemShape(resp[p].body.item)
    /\ ListedShape

\* C18: no two distinct records of kind file reference the same blob name.
C18_UniqueBlobName ==
    \A n, m \in DOMAIN locker :
        (n # m /\ IsFileRecord(locker[n]) /\ IsFileRecord(locker[m]))
           => BlobNameOf(locker[n]) # BlobNameOf(locker[m])

\* dir2 is dir without the file called name, or dir itself
AtMostRemoved(dir, dir2, name) ==
    /\ DOMAIN dir \ {name} \subseteq DOMAIN dir2
    /\ DOMAIN dir2 \subseteq DOMAIN dir
    /\ \A k \in DOMAIN dir2 : dir2[k] = dir[k]

\* C19: a step of DeleteItem changes no account record; it removes no blob
\* but the one the found record references, and no record but the one of the
\* identifier, which the last step does remove; a DeleteItem that answers
\* Not found or invalid id changes nothing.
C19_DeleteFrame ==
    [][\A p \in Procs :
          (/\ args[p].op = "DeleteItem"
           /\ pc[p] # "idle"
           /\ pc'[p] # pc[p])
             => /\ users' = users
                /\ pc[p] = "del_remove"
                   => /\ locker' = locker
                      /\ AtMostRemoved(blobs, blobs', BlobNameOf(loc[p].obj))
                /\ (pc[p] = "del_delete" /\ resp'[p].status = 200)
                   => /\ blobs' = blobs
                      /\ AtMostRemoved(locker, locker', ParseOid(args[p].item_id))
                      /\ ParseOid(args[p].item_id) \notin DOMAIN locker'
                /\ (pc[p] \notin {"del_remove", "del_delete"} \/ resp'[p].status \in {400, 404})
                   => blobs' = blobs /\ locker' = locker]_vars

\* a file item was deleted with its blob while the profile photo, another
\* item and its blob stayed
C19_Witness ==
    \E p \in Procs :
        /\ DeletedBy(p, args[p].item_id)
        /\ loc[p].removed
        /\ BlobNameOf(loc[p].obj) \notin DOMAIN blobs
        /\ PhotoName \in DOMAIN blobs
        /\ users[1]["photo"] = Str(PublicPath(PhotoName))
        /\ \E n \in DOMAIN locker : BlobNameOf(locker[n]) \in DOMAIN blobs

\* C20: when a CreateNote or a CreateFile answers anything but 201, the
\* locker collection holds no record that the call inserted.
C20_FailureLeavesNoRecord ==
    \A p \in Procs :
        (/\ args[p].op \in {"CreateNote", "CreateFile"}
         /\ Answered(p)
         /\ resp[p].status # 201)
           => loc[p].inserted \notin DOMAIN locker

====
